---------------------------- MODULE Spec2Model ----------------------------
(***************************************************************************)
(* Model of the praxis-hub-api edge worker (src/src/index.ts): the fetch   *)
(* handler (the /list-keys route and the document route), the sha1 helper  *)
(* and the paginated listAllKeys helper, over a key-value namespace.       *)
(*                                                                         *)
(* Strings that the code inspects character by character (paths, keys,     *)
(* header values, documents) are sequences of one-character strings.       *)
(* Response bodies and header values are sequences of string fragments.    *)
(* Optional values (undefined / null) are sequences of length at most 1.   *)
(***************************************************************************)
EXTENDS Integers, Sequences, FiniteSets, TLC

VARIABLES
    kv,         \* APP_JSON: stored value of each tracked key (None: no entry)
    nKeys,      \* APP_JSON: number of keys the namespace lists
    request,    \* the request being handled: pathname and If-None-Match
    pc,         \* position of the handler: idle, get, digest, list, done, failed
    key,        \* fetch: local `key`
    object,     \* fetch: local `object` (result of getWithMetadata)
    keys,       \* listAllKeys: local `keys`
    cursor,     \* listAllKeys: local `cursor`
    log,        \* listAllKeys: the list calls made (cursor sent, cursor or fault returned)
    response,   \* the Response the handler returned (None: none yet)
    prev        \* client: the earlier exchange a follow-up request repeats

vars == <<kv, nKeys, request, pc, key, object, keys, cursor, log, response, prev>>

(***************************************************************************)
(* Bounds of the model.                                                    *)
(***************************************************************************)
MaxSlashes == 2      \* leading slashes of a request path
MaxStem == 2         \* characters between the slashes and the ending
MaxQuotes == 2       \* quote characters on each side of a header token
MaxKeys == 2500      \* keys in the namespace when it is enumerated
DigestBytes == 1     \* bytes of the digest kept by the model

(***************************************************************************)
(* Optional values and strings.                                            *)
(***************************************************************************)
None == <<>>
Some(v) == <<v>>

Quote == "\""
Slash == "/"

RECURSIVE Quotes(_)
Quotes(n) == IF n = 0 THEN <<>> ELSE <<Quote>> \o Quotes(n - 1)

RECURSIVE Slashes(_)
Slashes(n) == IF n = 0 THEN <<>> ELSE <<Slash>> \o Slashes(n - 1)

Front(s) == SubSeq(s, 1, Len(s) - 1)

JsonSuffix == <<".", "j", "s", "o", "n">>
ListKeysPath == <<"/", "l", "i", "s", "t", "-", "k", "e", "y", "s">>

(***************************************************************************)
(* String methods the handler uses.                                        *)
(***************************************************************************)
\* s.replace(/\/+/g, ''), a global and unanchored pattern: every slash goes
RECURSIVE StripAllSlashes(_)
StripAllSlashes(s) ==
    IF s = <<>> THEN <<>>
    ELSE IF Head(s) = Slash THEN StripAllSlashes(Tail(s))
    ELSE <<Head(s)>> \o StripAllSlashes(Tail(s))

\* s.replace(/^\/+/, '')
RECURSIVE StripLeadingSlashes(_)
StripLeadingSlashes(s) ==
    IF s # <<>> /\ Head(s) = Slash THEN StripLeadingSlashes(Tail(s)) ELSE s

\* s.endsWith(suffix)
EndsWith(s, suffix) ==
    /\ Len(s) >= Len(suffix)
    /\ SubSeq(s, Len(s) - Len(suffix) + 1, Len(s)) = suffix

\* a mutant of the suffix step: the suffix is appended whatever the ending
AlwaysSuffixed(k) == k \o JsonSuffix

\* if (!key.endsWith('.json')) key += '.json'
EnsureSuffix(k) == IF EndsWith(k, JsonSuffix) THEN k ELSE k \o JsonSuffix

\* a mutant of the key derivation: slashes are removed wherever they stand
DeriveKeyGlobal(pathname) == EnsureSuffix(StripAllSlashes(pathname))

\* the two statements that derive `key` from `pathname`
DeriveKey(pathname) == EnsureSuffix(StripLeadingSlashes(pathname))

\* a mutant of the weak-prefix step: the prefix is left in place
KeepWeak(s) == s

\* s.replace(/^W\//, '')
StripWeak(s) ==
    IF Len(s) >= 2 /\ s[1] = "W" /\ s[2] = Slash THEN SubSeq(s, 3, Len(s)) ELSE s

RECURSIVE StripLeadingQuotes(_)
StripLeadingQuotes(s) ==
    IF s # <<>> /\ Head(s) = Quote THEN StripLeadingQuotes(Tail(s)) ELSE s

RECURSIVE StripTrailingQuotes(_)
StripTrailingQuotes(s) ==
    IF s # <<>> /\ s[Len(s)] = Quote THEN StripTrailingQuotes(Front(s)) ELSE s

\* s.replace(/^"+|"+$/g, ''): the leading run and the trailing run of quotes
StripQuotes(s) == StripTrailingQuotes(StripLeadingQuotes(s))

(***************************************************************************)
(* sha1: TextEncoder, the digest, and the hexadecimal rendering.           *)
(***************************************************************************)
CharCode(c) ==
    CASE c = "{" -> 123 [] c = "}" -> 125 [] c = "[" -> 91 [] c = "]" -> 93
      [] c = Quote -> 34 [] c = ":" -> 58 [] c = "a" -> 97 [] c = "b" -> 98
      [] c = "1" -> 49 [] c = "2" -> 50 [] OTHER -> 63

\* encoder.encode(data): one byte per (ASCII) character
TextEncode(data) == [i \in 1..Len(data) |-> CharCode(data[i])]

\* one byte of the digest: a fold of the message bytes, salted by its index
RECURSIVE DigestByte(_, _)
DigestByte(bytes, k) ==
    IF bytes = <<>> THEN (k * 167 + 29) % 256
    ELSE (DigestByte(Front(bytes), k) * 31 + bytes[Len(bytes)] + k) % 256

\* crypto.subtle.digest: a fixed number of bytes, a function of the message
SubtleDigest(bytes) == [k \in 1..DigestBytes |-> DigestByte(bytes, k)]

HexDigits == <<"0", "1", "2", "3", "4", "5", "6", "7", "8", "9",
               "a", "b", "c", "d", "e", "f">>

\* b.toString(16)
ToString16(b) ==
    IF b < 16 THEN <<HexDigits[b + 1]>>
    ELSE <<HexDigits[(b \div 16) + 1], HexDigits[(b % 16) + 1]>>

\* s.padStart(2, '0')
PadStart2(s) == IF Len(s) < 2 THEN <<"0">> \o s ELSE s

RECURSIVE JoinHex(_)
JoinHex(bytes) ==
    IF bytes = <<>> THEN <<>>
    ELSE PadStart2(ToString16(Head(bytes))) \o JoinHex(Tail(bytes))

Sha1(data) == JoinHex(SubtleDigest(TextEncode(data)))


(***************************************************************************)
(* JSON.stringify of the values the handler serialises.                    *)
(***************************************************************************)
JsonEscape(c) ==
    IF c = Quote THEN "\\\"" ELSE IF c = "\\" THEN "\\\\" ELSE c

\* JSON.stringify of a string
JsonString(s) == <<Quote>> \o [i \in 1..Len(s) |-> JsonEscape(s[i])] \o <<Quote>>

\* JSON.stringify of an array of key names
JsonArray(names) ==
    <<"[">>
    \o [i \in 1..(IF names = <<>> THEN 0 ELSE 2 * Len(names) - 1) |->
           IF i % 2 = 1 THEN Quote \o names[(i + 1) \div 2] \o Quote ELSE ","]
    \o <<"]">>

(***************************************************************************)
(* The key-value namespace (Env.APP_JSON).                                 *)
(***************************************************************************)
PageLimit == 1000

Doc1 == <<"{", Quote, "a", Quote, ":", "1", "}">>
Doc2 == <<"{", Quote, "a", Quote, ":", "2", "}">>

StoredKeys == { <<"a">> \o JsonSuffix }
KvValues == {None, Some(<<>>), Some(Doc1), Some(Doc2)}

\* kv.getWithMetadata(key, { type: 'text' })
KvGet(store, k) == [value |-> IF k \in DOMAIN store THEN store[k] ELSE None]

KeyName(i) == "k" \o ToString(i)

Min(a, b) == IF a < b THEN a ELSE b

\* kv.list({ cursor, limit }): the keys after the cursor, at most `limit` of
\* them, and a cursor exactly when keys remain after the page
KvList(n, cur, limit) ==
    LET start == IF cur = None THEN 0 ELSE cur[1]
        stop == Min(start + limit, n)
    IN  [names |-> [i \in 1..(stop - start) |-> KeyName(start + i)],
         cursor |-> IF stop < n THEN Some(stop) ELSE None]

\* what a rejected store call can be rejected with
Messages == { <<>>,
              <<"t", "i", "m", "e", "o", "u", "t">>,
              <<"b", "a", "d", " ", Quote, "k", Quote>> }

Faults ==
    { [truthy |-> TRUE, type |-> "object", hasMessage |-> TRUE, message |-> m] :
          m \in Messages }
    \cup { [truthy |-> TRUE, type |-> "object", hasMessage |-> FALSE, message |-> <<>>],
           [truthy |-> TRUE, type |-> "string", hasMessage |-> FALSE, message |-> <<>>],
           [truthy |-> FALSE, type |-> "object", hasMessage |-> FALSE, message |-> <<>>],
           [truthy |-> FALSE, type |-> "undefined", hasMessage |-> FALSE, message |-> <<>>] }

(***************************************************************************)
(* Responses.                                                              *)
(***************************************************************************)
NoHeaders == [contentType |-> None, allowOrigin |-> None, exposeHeaders |-> None,
              cacheControl |-> None, etag |-> None]

ApplicationJson == <<"application/json">>
AnyOrigin == <<"*">>

Response(status, body, headers) == [status |-> status, body |-> body, headers |-> headers]

\* the response to /list-keys when the enumeration succeeded
KeyListResponse(allKeys) ==
    Response(200, Some(JsonArray(allKeys)),
             [NoHeaders EXCEPT !.contentType = Some(ApplicationJson),
                               !.allowOrigin = Some(AnyOrigin)])

UnknownError == <<"Unknown error">>

\* a mutant of the message extraction: the fault's own message is never used
ErrorMessageAlwaysUnknown(err) == UnknownError

\* the catch block's errorMessage
ErrorMessage(err) ==
    IF err.truthy /\ err.type = "object" /\ err.hasMessage THEN err.message
    ELSE UnknownError

\* the response to /list-keys when the enumeration raised `err`
ListFailedResponse(err) ==
    Response(500,
             Some(<<"{", "\"error\"", ":", "\"Failed to list keys\"", ",",
                    "\"details\"", ":">> \o JsonString(ErrorMessage(err)) \o <<"}">>),
             [NoHeaders EXCEPT !.contentType = Some(ApplicationJson)])

\* a mutant of the lookup test: only a missing entry counts as not found
IsMissingEntryOnly(obj) == obj.value = None

\* !object || !object.value
IsMissing(obj) == obj.value = None \/ obj.value = Some(<<>>)

\* the 404 response
NotFoundResponse(k) ==
    Response(404,
             Some(<<"{", "\"error\"", ":">>
                  \o JsonString(<<"JSON not found for key: ">> \o k) \o <<"}">>),
             [NoHeaders EXCEPT !.contentType = Some(ApplicationJson)])

\* const etag = `"${await sha1(jsonString)}"`
Etag(jsonString) == <<Quote>> \o Sha1(jsonString) \o <<Quote>>

\* the normalised If-None-Match value (undefined when the header is absent)
IfNoneMatch(header) ==
    IF header = None THEN None ELSE Some(StripQuotes(StripWeak(header[1])))

\* a mutant of the comparison: the quoted ETag is compared as it stands
NormalizedEtagQuoted(etag) == etag

\* const normalizedEtag = etag.replace(/^"+|"+$/g, '')
NormalizedEtag(etag) == StripQuotes(etag)

\* a mutant of the 304 response: it also carries the caching directive
NotModifiedResponseCached(etag) ==
    Response(304, None,
             [NoHeaders EXCEPT !.etag = Some(etag),
                               !.allowOrigin = Some(AnyOrigin),
                               !.exposeHeaders = Some(<<"ETag">>),
                               !.cacheControl = Some(<<"public, max-age=300">>)])

\* the 304 response
NotModifiedResponse(etag) ==
    Response(304, None,
             [NoHeaders EXCEPT !.etag = Some(etag),
                               !.allowOrigin = Some(AnyOrigin),
                               !.exposeHeaders = Some(<<"ETag">>)])

\* the 200 response carrying the document
DocumentResponse(jsonString, etag) ==
    Response(200, Some(jsonString),
             [NoHeaders EXCEPT !.contentType = Some(ApplicationJson),
                               !.allowOrigin = Some(AnyOrigin),
                               !.cacheControl = Some(<<"public, max-age=300">>),
                               !.etag = Some(etag)])

\* the handler from `const jsonString = object.value` to its return
ConditionalResponse(jsonString, header) ==
    LET etag == Etag(jsonString)
    IN  IF IfNoneMatch(header) = Some(NormalizedEtag(etag))
        THEN NotModifiedResponse(etag)
        ELSE DocumentResponse(jsonString, etag)

(***************************************************************************)
(* The requests the model sends.                                           *)
(***************************************************************************)
RECURSIVE SeqsOfLen(_, _)
SeqsOfLen(S, n) ==
    IF n = 0 THEN {<<>>} ELSE {<<c>> \o s : c \in S, s \in SeqsOfLen(S, n - 1)}

Stems == UNION {SeqsOfLen({"a", Slash}, n) : n \in 0..MaxStem}

Endings == { <<>>, JsonSuffix, <<".", "j", "s", "o">>, <<"j", "s", "o", "n">>,
             JsonSuffix \o JsonSuffix }

\* url.pathname always starts with a slash
Paths ==
    {Slashes(n) \o st \o e : n \in 1..MaxSlashes, st \in Stems, e \in Endings}
    \cup {ListKeysPath, <<Slash>> \o ListKeysPath, ListKeysPath \o JsonSuffix}

Tokens == {Sha1(Doc1), Sha1(Doc2), <<>>, <<"a", Quote, "b">>}

WeakPrefixes == { <<>>, <<"W", Slash>>, <<"w", Slash>> }

\* request.headers.get('If-None-Match'): None when the header is absent
HeaderValues ==
    {None} \cup
    {Some(w \o Quotes(i) \o t \o Quotes(j)) :
        w \in WeakPrefixes, i \in 0..MaxQuotes, j \in 0..MaxQuotes, t \in Tokens}

\* every path with the plain headers, and the plain paths with every header
PlainPaths == { <<Slash, "a">>, <<Slash, "a">> \o JsonSuffix, <<Slash>>, ListKeysPath }
PlainHeaders == {None, Some(Etag(Doc1)), Some(<<"W", Slash>> \o Etag(Doc2))}

Requests == (Paths \X PlainHeaders) \cup (PlainPaths \X HeaderValues)

(***************************************************************************)
(* The handler.                                                            *)
(***************************************************************************)
NoObject == [value |-> None]
NoPrev == [kind |-> "none", response |-> None, object |-> NoObject]

Resting == pc \in {"idle", "done", "failed"}

\* fetch up to its first await: the route and, on the document route, the key
StartRequest(pathname, header, pv) ==
    /\ request' = [path |-> pathname, ifNoneMatch |-> header]
    /\ pc' = IF pathname = ListKeysPath THEN "list" ELSE "get"
    /\ key' = IF pathname = ListKeysPath THEN <<>> ELSE DeriveKey(pathname)
    /\ object' = NoObject
    /\ keys' = <<>>
    /\ cursor' = None
    /\ log' = <<>>
    /\ response' = None
    /\ prev' = pv
    /\ UNCHANGED <<kv, nKeys>>

Receive ==
    /\ pc = "idle"
    /\ \E r \in Requests : StartRequest(r[1], r[2], NoPrev)

\* a mutant of the loop test: the loop goes on when no cursor came back
LoopOnAbsentCursor(cur) == cur = None

\* while (cursor)
LoopContinues(cur) == cur # None

\* a mutant of the accumulation: each page replaces the keys collected so far
KeepLastPage(ks, names) == names

\* keys = keys.concat(listResponse.keys.map((k) => k.name))
Accumulate(ks, names) == ks \o names

\* one iteration of listAllKeys whose list call is answered; when the loop
\* ends, listAllKeys returns and fetch builds the key list response
ListPage ==
    /\ pc = "list"
    /\ LET listResponse == KvList(nKeys, cursor, PageLimit)
       IN  /\ keys' = Accumulate(keys, listResponse.names)
           /\ cursor' = listResponse.cursor
    /\ log' = Append(log, [sent |-> cursor, returned |-> cursor', fault |-> None])
    /\ IF LoopContinues(cursor')
       THEN pc' = "list" /\ response' = response
       ELSE pc' = "done" /\ response' = Some(KeyListResponse(keys'))
    /\ UNCHANGED <<kv, nKeys, request, key, object, prev>>

\* one iteration of listAllKeys whose list call raises `err`: the catch block
ListFault(err) ==
    /\ pc = "list"
    /\ log' = Append(log, [sent |-> cursor, returned |-> None, fault |-> Some(err)])
    /\ pc' = "done"
    /\ response' = Some(ListFailedResponse(err))
    /\ UNCHANGED <<kv, nKeys, request, key, object, keys, cursor, prev>>

\* getWithMetadata answers: the 404, or on to the digest
GetObject ==
    /\ pc = "get"
    /\ object' = KvGet(kv, key)
    /\ IF IsMissing(object')
       THEN pc' = "done" /\ response' = Some(NotFoundResponse(key))
       ELSE pc' = "digest" /\ response' = response
    /\ UNCHANGED <<kv, nKeys, request, key, keys, cursor, log, prev>>

\* getWithMetadata raises: nothing catches it, fetch rejects
GetFault ==
    /\ pc = "get"
    /\ pc' = "failed"
    /\ UNCHANGED <<kv, nKeys, request, key, object, keys, cursor, log, response, prev>>

\* the digest completes: the 304 or the 200
Digest ==
    /\ pc = "digest"
    /\ pc' = "done"
    /\ response' = Some(ConditionalResponse(object.value[1], request.ifNoneMatch))
    /\ UNCHANGED <<kv, nKeys, request, key, object, keys, cursor, log, prev>>

\* the invocation is over: nothing of it is kept for the next one
Return ==
    /\ pc \in {"done", "failed"}
    /\ request' = [path |-> <<Slash>>, ifNoneMatch |-> None]
    /\ pc' = "idle"
    /\ key' = <<>>
    /\ object' = NoObject
    /\ keys' = <<>>
    /\ cursor' = None
    /\ log' = <<>>
    /\ response' = None
    /\ prev' = NoPrev
    /\ UNCHANGED <<kv, nKeys>>

(***************************************************************************)
(* The environment: writers of the namespace, and clients that follow a    *)
(* response with a second request for the same path.                       *)
(***************************************************************************)
StorePut(k, v) ==
    /\ Resting
    /\ kv[k] # v
    /\ kv' = [kv EXCEPT ![k] = v]
    /\ nKeys' = nKeys + (IF kv[k] = None THEN 1 ELSE 0) - (IF v = None THEN 1 ELSE 0)
    /\ UNCHANGED <<request, pc, key, object, keys, cursor, log, response, prev>>

IsDocumentRoute == request.path # ListKeysPath

\* the client sends the ETag it was given as If-None-Match
Revalidate ==
    /\ pc = "done"
    /\ IsDocumentRoute
    /\ response[1].status = 200
    /\ StartRequest(request.path, response[1].headers.etag,
                    [kind |-> "etag", response |-> response, object |-> object])

IsQuoted(h) == Len(h) >= 2 /\ h[1] = Quote /\ h[Len(h)] = Quote

\* the client repeats a request whose If-None-Match was "t" with W/"t"
ResendWeak ==
    /\ pc = "done"
    /\ IsDocumentRoute
    /\ request.ifNoneMatch # None
    /\ IsQuoted(request.ifNoneMatch[1])
    /\ StartRequest(request.path, Some(<<"W", Slash>> \o request.ifNoneMatch[1]),
                    [kind |-> "weak", response |-> response, object |-> object])

(***************************************************************************)
(* Specifications.                                                         *)
(***************************************************************************)
InitLocals ==
    /\ request = [path |-> <<Slash>>, ifNoneMatch |-> None]
    /\ pc = "idle"
    /\ key = <<>>
    /\ object = NoObject
    /\ keys = <<>>
    /\ cursor = None
    /\ log = <<>>
    /\ response = None
    /\ prev = NoPrev

Init ==
    /\ kv \in [StoredKeys -> KvValues]
    /\ nKeys = Cardinality({k \in StoredKeys : kv[k] # None})
    /\ InitLocals

Next ==
    \/ Receive
    \/ ListPage
    \/ \E err \in Faults : ListFault(err)
    \/ GetObject
    \/ GetFault
    \/ Digest
    \/ Return
    \/ \E k \in StoredKeys, v \in KvValues : StorePut(k, v)
    \/ Revalidate
    \/ ResendWeak

Spec == Init /\ [][Next]_vars

\* the namespace holds any number of keys up to MaxKeys and is enumerated
InitList ==
    /\ kv = [k \in StoredKeys |-> None]
    /\ nKeys \in 0..MaxKeys
    /\ InitLocals

ReceiveList ==
    /\ pc = "idle"
    /\ StartRequest(ListKeysPath, None, NoPrev)

ListStep == (\E err \in Faults : ListFault(err)) \/ ListPage

NextList ==
    \/ ReceiveList
    \/ ListPage
    \/ \E err \in Faults : ListFault(err)
    \/ Return

\* every list call is answered or rejected
SpecList == InitList /\ [][NextList]_vars /\ WF_vars(ListStep)

(***************************************************************************)
(* Properties of the document route.                                       *)
(***************************************************************************)
Returned == pc = "done" /\ response # None
Status == response[1].status
Headers == response[1].headers
Body == response[1].body

HasDocument == object.value # None /\ object.value # Some(<<>>)

\* C1: every response the handler returns carries
\* Access-Control-Allow-Origin: *
C1_EveryResponseAllowsAnyOrigin ==
    Returned => Headers.allowOrigin = Some(<<"*">>)

\* C2: when a 200 gave ETag E and the document read by the next request for
\* the same path is the same, sending E as If-None-Match yields a 304 with no
\* body and the ETag E
C2_RoundTrip ==
    (pc = "done" /\ prev.kind = "etag" /\ object = prev.object) =>
        /\ response # None
        /\ Status = 304
        /\ Body = None
        /\ Headers.etag = prev.response[1].headers.etag

C2_Witness ==
    /\ pc = "done"
    /\ prev.kind = "etag"
    /\ object = prev.object
    /\ prev.response[1].status = 200
    /\ request.ifNoneMatch = prev.response[1].headers.etag
    /\ response # None
    /\ Status = 304

\* the header values whose normalised form is the fingerprint fp: an optional
\* W/, any number of quotes, fp, any number of quotes
MatchesFingerprint(header, fp) ==
    /\ header # None
    /\ \E w \in { <<>>, <<"W", "/">> } :
         \E i \in 0..Len(header[1]), j \in 0..Len(header[1]) :
            header[1] = w \o Quotes(i) \o fp \o Quotes(j)

\* C3: for a stored non-empty document the response is the 304 (ETag,
\* Access-Control-Expose-Headers: ETag, no body, no Cache-Control) exactly when
\* If-None-Match is present and normalises to the fingerprint, and otherwise
\* the 200 with the stored content as body, Content-Type application/json,
\* Cache-Control public, max-age=300 and the quoted fingerprint as ETag
C3_ConditionalResponse ==
    /\ pc = "digest" => key \in DOMAIN kv /\ object.value = kv[key]
    /\ (Returned /\ IsDocumentRoute /\ HasDocument) =>
          LET content == object.value[1]
              fp == Sha1(content)
              quoted == <<"\"">> \o fp \o <<"\"">>
          IN  IF MatchesFingerprint(request.ifNoneMatch, fp)
              THEN /\ Status = 304
                   /\ Body = None
                   /\ Headers.etag = Some(quoted)
                   /\ Headers.exposeHeaders = Some(<<"ETag">>)
                   /\ Headers.cacheControl = None
              ELSE /\ Status = 200
                   /\ Body = Some(content)
                   /\ Headers.contentType = Some(<<"application/json">>)
                   /\ Headers.cacheControl = Some(<<"public, max-age=300">>)
                   /\ Headers.etag = Some(quoted)

C3_Witness ==
    /\ Returned
    /\ IsDocumentRoute
    /\ HasDocument
    /\ Status = 304
    /\ request.ifNoneMatch =
          Some(<<"W", "/">> \o Quotes(2) \o Sha1(object.value[1]) \o Quotes(1))

\* C4: a request whose If-None-Match is W/"t" gets the response that the same
\* request with "t" got, the store being the same
C4_WeakPrefixIgnored ==
    (pc = "done" /\ prev.kind = "weak" /\ object = prev.object) =>
        response = prev.response

C4_Witness ==
    /\ pc = "done"
    /\ prev.kind = "weak"
    /\ object = prev.object
    /\ request.ifNoneMatch # None
    /\ SubSeq(request.ifNoneMatch[1], 1, 3) = <<"W", "/", "\"">>
    /\ response = prev.response
    /\ Status = 304

\* C5: on the document route, a key with no entry or an empty value gets the
\* 404 with body {"error":"JSON not found for key: <key>"} and no ETag,
\* whatever the If-None-Match, and the digest is never started for it
C5_NotFound ==
    /\ pc = "digest" => HasDocument
    /\ (pc = "done" /\ IsDocumentRoute /\ ~HasDocument) =>
          /\ response # None
          /\ Status = 404
          /\ Body = Some(<<"{", "\"error\"", ":", "\"", "JSON not found for key: ">>
                         \o key \o <<"\"", "}">>)
          /\ Headers.etag = None

C5_Witness ==
    /\ Returned
    /\ IsDocumentRoute
    /\ object.value = Some(<<>>)
    /\ request.ifNoneMatch # None
    /\ Status = 404

(***************************************************************************)
(* Properties of the key derivation.                                       *)
(***************************************************************************)
\* the path after its leading slashes, found by position
AfterSlashes(p) ==
    LET n == CHOOSE k \in 0..Len(p) :
                /\ \A i \in 1..k : p[i] = "/"
                /\ k = Len(p) \/ p[k + 1] # "/"
    IN  SubSeq(p, n + 1, Len(p))

HasJsonEnding(s) ==
    /\ Len(s) >= 5
    /\ <<s[Len(s) - 4], s[Len(s) - 3], s[Len(s) - 2], s[Len(s) - 1], s[Len(s)]>>
         = <<".", "j", "s", "o", "n">>

\* C9: the key is the path without its leading slashes, followed by .json
\* unless it already ends in .json
C9_KeyDerivation ==
    (pc # "idle" /\ IsDocumentRoute) =>
        LET s == AfterSlashes(request.path)
        IN  key = IF HasJsonEnding(s) THEN s ELSE s \o <<".", "j", "s", "o", "n">>

C9_Witness ==
    /\ pc = "get"
    /\ request.path = <<"/", "/", "a", ".", "j", "s", "o", "n">>
    /\ key = <<"a", ".", "j", "s", "o", "n">>

DocumentPaths == Paths \ {ListKeysPath}

\* C10 as stated: no other path of the document route derives the same key
C10_Injective ==
    (pc # "idle" /\ IsDocumentRoute) =>
        \A q \in DocumentPaths : q # request.path => DeriveKey(q) # key

\* a path with a single leading slash and no .json ending
IsPlainPath(p) ==
    /\ Len(p) >= 1
    /\ p[1] = "/"
    /\ Len(p) = 1 \/ p[2] # "/"
    /\ ~HasJsonEnding(p)

\* C10 as amended: another path derives the same key only when the two differ
\* in nothing but their leading slashes and a trailing .json that one has and
\* the other lacks; paths with a single leading slash and no .json ending
\* never collide
C10_CollisionsAreNormalisations ==
    (pc # "idle" /\ IsDocumentRoute) =>
        \A q \in DocumentPaths :
            (q # request.path /\ DeriveKey(q) = key) =>
                LET a == AfterSlashes(q)
                    b == AfterSlashes(request.path)
                IN  /\ \/ a = b
                       \/ a = b \o <<".", "j", "s", "o", "n">>
                       \/ b = a \o <<".", "j", "s", "o", "n">>
                    /\ ~(IsPlainPath(q) /\ IsPlainPath(request.path))

C10_Witness ==
    /\ pc = "get"
    /\ request.path = <<"/", "a">>
    /\ key = DeriveKey(<<"/", "/", "a", ".", "j", "s", "o", "n">>)

(***************************************************************************)
(* Properties of the enumeration.                                          *)
(***************************************************************************)
Calls == Len(log)
Faulted == log # <<>> /\ log[Len(log)].fault # None

\* C6: an enumeration that succeeds returns the N key names in the store's
\* order, in ceil(N/1000) list calls (one when N = 0), the first without a
\* cursor and each later one with the cursor the call before returned
C6_CompleteEnumeration ==
    (Returned /\ ~IsDocumentRoute /\ ~Faulted) =>
        /\ keys = [i \in 1..nKeys |-> KeyName(i)]
        /\ Status = 200
        /\ Calls = IF nKeys = 0 THEN 1 ELSE (nKeys + 999) \div 1000
        /\ log[1].sent = None
        /\ \A c \in 2..Calls :
              log[c].sent # None /\ log[c].sent = log[c - 1].returned

C6_Witness ==
    /\ Returned
    /\ ~IsDocumentRoute
    /\ ~Faulted
    /\ nKeys = 2500
    /\ Calls = 3
    /\ Len(keys) = 2500

\* C7: a fault raised by any list call gives the 500 whose details are the
\* fault's message when it is an object that has one and "Unknown error"
\* otherwise, and whose body holds none of the keys collected before
C7_EnumerationFault ==
    (pc = "done" /\ ~IsDocumentRoute /\ Faulted) =>
        LET err == log[Len(log)].fault[1]
            details == IF err.hasMessage THEN err.message ELSE <<"Unknown error">>
        IN  /\ response # None
            /\ Status = 500
            /\ Body = Some(<<"{", "\"error\"", ":", "\"Failed to list keys\"", ",",
                             "\"details\"", ":">> \o JsonString(details) \o <<"}">>)
            /\ LET fragments == {Body[1][j] : j \in 1..Len(Body[1])}
               IN  \A i \in 1..Len(keys) : ("\"" \o keys[i] \o "\"") \notin fragments

C7_Witness ==
    /\ pc = "done"
    /\ Faulted
    /\ Calls = 3
    /\ Len(keys) = 2000
    /\ log[Len(log)].fault[1].hasMessage
    /\ log[Len(log)].fault[1].message # <<>>
    /\ Status = 500

\* C8: an enumeration that was started ends, and the list call that gets no
\* cursor back is its last
C8_Terminates ==
    /\ (pc = "list") ~> (pc = "done")
    /\ [][(Len(log') = Len(log) + 1 /\ log'[Len(log')].returned = None)
             => pc' = "done"]_vars
    /\ [][pc = "done" => (log' = log \/ log' = <<>>)]_vars

C8_Witness ==
    /\ pc = "done"
    /\ ~Faulted
    /\ Calls = 3
    /\ log[1].returned # None
    /\ log[2].returned # None
    /\ log[3].returned = None

=============================================================================
